---- MODULE Spec2Model ----
(***************************************************************************)
(* Model of taskcat's reflection-driven CLI builder, CliCore               *)
(* (src/taskcat/cli_core.py): schema construction from plugin signatures,  *)
(* usage strings, docstring help extraction, argument parsing through the  *)
(* nested argparse grammar the class assembles, and dispatch.              *)
(*                                                                         *)
(* Text is a sequence of one-character strings, so that lower(), replace(),*)
(* strip(), startswith() and format() are computed character by character. *)
(* Python values are tagged records: PyStr(text), PyInt(n), PyBool(b) and    *)
(* None.                                                                   *)
(***************************************************************************)
EXTENDS Integers, Sequences, FiniteSets, TLC

VARIABLES
  name,         \* CliCore.name: the program name
  args,         \* CliCore.args: {"global": [...], "commands": {...}}
  parser,       \* CliCore.parser with its nested sub-parsers and usage lines
  parsed_args,  \* CliCore.parsed_args: [] until a parse() returns
  sys_argv,     \* the host process's own arguments (sys.argv[1:])
  last,         \* the most recent call (op) and how it ended (status), with the
                \* vector handed to the most recent parse() (given, args)
  calls,        \* the plugin calls made by the most recent run()
  item,         \* _get_param_help's callable (kind, own doc, constructor doc)
  param,        \* _get_param_help's parameter name
  help_str      \* _get_param_help's result

vars == <<name, args, parser, parsed_args, sys_argv, last, calls, item, param, help_str>>

-----------------------------------------------------------------------------
(* Python values and text                                                  *)

None == [none |-> TRUE]
PyStr(s) == [str |-> s]
PyInt(n) == [int |-> n]
PyBool(b) == [bool |-> b]

UpperCase == <<"A","B","C","D","E","F","G","H","I","J","K","L","M","N","O","P","Q","R","S","T","U","V","W","X","Y","Z">>
LowerCase == <<"a","b","c","d","e","f","g","h","i","j","k","l","m","n","o","p","q","r","s","t","u","v","w","x","y","z">>
Digits == <<"0","1","2","3","4","5","6","7","8","9">>

\* str.lower(), one character
LowerChar(c) ==
  IF \E i \in DOMAIN UpperCase : UpperCase[i] = c
  THEN LowerCase[CHOOSE i \in DOMAIN UpperCase : UpperCase[i] = c]
  ELSE c

\* str.lower()
Lower(s) == [i \in DOMAIN s |-> LowerChar(s[i])]

\* str.replace(old, new) for single characters
Replace(s, old, new) == [i \in DOMAIN s |-> IF s[i] = old THEN new ELSE s[i]]

\* str.startswith(prefix)
StartsWith(s, prefix) ==
  /\ Len(prefix) <= Len(s)
  /\ SubSeq(s, 1, Len(prefix)) = prefix

\* str.endswith(suffix)
EndsWith(s, suffix) ==
  /\ Len(suffix) <= Len(s)
  /\ SubSeq(s, Len(s) - Len(suffix) + 1, Len(s)) = suffix

IsSpace(c) == c \in {" ", "\t", "\n"}

\* str.strip(): drop leading and trailing whitespace
RECURSIVE LStrip(_)
LStrip(s) == IF s # <<>> /\ IsSpace(Head(s)) THEN LStrip(Tail(s)) ELSE s
RECURSIVE RStrip(_)
RStrip(s) ==
  IF s # <<>> /\ IsSpace(s[Len(s)]) THEN RStrip(SubSeq(s, 1, Len(s) - 1)) ELSE s
Strip(s) == RStrip(LStrip(s))

\* str.split("\n"): the lines of a text, at least one
RECURSIVE SplitLines(_)
SplitLines(s) ==
  IF \E i \in DOMAIN s : s[i] = "\n"
  THEN LET i == CHOOSE k \in DOMAIN s : s[k] = "\n" /\ \A j \in 1..(k - 1) : s[j] # "\n"
       IN <<SubSeq(s, 1, i - 1)>> \o SplitLines(SubSeq(s, i + 1, Len(s)))
  ELSE <<s>>

\* the concatenation of a sequence of texts
RECURSIVE Concat(_)
Concat(ss) == IF ss = <<>> THEN <<>> ELSE Head(ss) \o Concat(Tail(ss))

\* all sequences over S of length at most n
SeqsUpTo(S, n) == UNION {[1..k -> S] : k \in 0..n}

-----------------------------------------------------------------------------
(* The plugin package handed to CliCore: the types and signatures that     *)
(* inspect reports.  A parameter is [name, has_default, default,           *)
(* annotation]; a function lists its parameters with the receiver, a type  *)
(* lists its constructor's without it (inspect.signature of a class).      *)

Parameter(n, has_default, default, annotation) ==
  [name |-> n, has_default |-> has_default, default |-> default, annotation |-> annotation]

Function(n, params, doc) ==
  [kind |-> "function", name |-> n, params |-> params, doc |-> doc, init_doc |-> None]

s_self == <<"s","e","l","f">>
s_project_root == <<"p","r","o","j","e","c","t","_","r","o","o","t">>
s_optimize == <<"o","p","t","i","m","i","z","e">>
s_verbose == <<"v","e","r","b","o","s","e">>
s_Path == <<"P","a","t","h">>
s_max_jobs == <<"m","a","x","_","j","o","b","s">>
s_init == <<"_","_","i","n","i","t","_","_">>
s_compile == <<"c","o","m","p","i","l","e">>
s_scan == <<"_","s","c","a","n">>
s_builder == <<"b","u","i","l","d","e","r">>
s_reporter == <<"r","e","p","o","r","t","e","r">>
s_loader == <<"l","o","a","d","e","r">>
s_debug == <<"d","e","b","u","g">>
s_command == <<"_","c","o","m","m","a","n","d">>
s_subcommand == <<"_","s","u","b","c","o","m","m","a","n","d">>
s_help == <<"h","e","l","p">>
s_version == <<"v","e","r","s","i","o","n">>

\* class Builder:
\*     def __init__(self, project_root: str): """...:param project_root: root"""
\*     def compile(self, optimize: bool): ...
\*     def _scan(self): ...
BuilderInitDoc ==
  PyStr(<<"\n"," ",":","p","a","r","a","m"," ","p","r","o","j","e","c","t","_","r","o","o","t",":"," ","r","o","o","t","\n">>)
Builder ==
  [kind |-> "class", name |-> <<"B","u","i","l","d","e","r">>,
   params |-> <<Parameter(s_project_root, FALSE, None, "str")>>,
   doc |-> None, init_doc |-> BuilderInitDoc,
   functions |-> <<
     Function(s_init, <<Parameter(s_self, FALSE, None, "empty"),
                        Parameter(s_project_root, FALSE, None, "str")>>, BuilderInitDoc),
     Function(s_scan, <<Parameter(s_self, FALSE, None, "empty")>>, None),
     Function(s_compile, <<Parameter(s_self, FALSE, None, "empty"),
                           Parameter(s_optimize, FALSE, None, "bool")>>, None)>>]

\* class Reporter:
\*     def __init__(self, verbose: bool = False): ...
Reporter ==
  [kind |-> "class", name |-> <<"R","e","p","o","r","t","e","r">>,
   params |-> <<Parameter(s_verbose, TRUE, PyBool(FALSE), "bool")>>,
   doc |-> None, init_doc |-> None,
   functions |-> <<
     Function(s_init, <<Parameter(s_self, FALSE, None, "empty"),
                        Parameter(s_verbose, TRUE, PyBool(FALSE), "bool")>>, None)>>]

\* class Loader:
\*     def __init__(self, Path, max_jobs: int = 1): ...
Loader ==
  [kind |-> "class", name |-> <<"L","o","a","d","e","r">>,
   params |-> <<Parameter(s_Path, FALSE, None, "empty"),
                Parameter(s_max_jobs, TRUE, PyInt(1), "int")>>,
   doc |-> None, init_doc |-> None,
   functions |-> <<
     Function(s_init, <<Parameter(s_self, FALSE, None, "empty"),
                        Parameter(s_Path, FALSE, None, "empty"),
                        Parameter(s_max_jobs, TRUE, PyInt(1), "int")>>, None)>>]

\* the classes the plugin package exports (inspect.getmembers, isclass)
module_package == {Builder, Reporter, Loader}

-----------------------------------------------------------------------------
(* Discovery and schema construction                                       *)

\* CliCore._get_plugin_modules: lower-cased type name -> type
get_plugin_modules ==
  [n \in {Lower(cls.name) : cls \in module_package} |->
     CHOOSE cls \in module_package : Lower(cls.name) = n]

_modules == get_plugin_modules

\* CliCore._get_class_methods: the function members whose name has no leading "_"
get_class_methods(module) ==
  SelectSeq(module.functions, LAMBDA f : ~StartsWith(f.name, <<"_">>))

\* the documentation block _get_param_help reads: the callable's own if it is
\* a function, its constructor's otherwise
Docstring(it) == IF it.kind = "function" THEN it.doc ELSE it.init_doc

\* the tag without its closing colon
ParamTagOpen(p) == <<":","p","a","r","a","m"," ">> \o p

\* the tag f":param {param}:"
ParamTag(p) == <<":","p","a","r","a","m"," ">> \o p \o <<":">>

\* the loop of _get_param_help over the lines: the first line that, stripped,
\* starts with the tag gives the text after the tag, stripped
RECURSIVE ScanParamHelp(_, _)
ScanParamHelp(lines, tag) ==
  IF lines = <<>> THEN <<>>
  ELSE LET line == Strip(Head(lines))
       IN IF StartsWith(line, tag)
          THEN Strip(SubSeq(line, Len(tag) + 1, Len(line)))
          ELSE ScanParamHelp(Tail(lines), tag)

\* CliCore._get_param_help
get_param_help(it, p) ==
  LET docstring == Docstring(it)
  IN IF docstring = None THEN <<>>
     ELSE ScanParamHelp(SplitLines(docstring.str), ParamTag(p))

\* the declared type kept by _get_params: str, int or bool, anything else is str
ValType(annotation) == IF annotation \in {"str", "int", "bool"} THEN annotation ELSE "str"

\* the body of _get_params' loop for one parameter: <<flags, kwargs>>
get_param(it, p) ==
  LET required == ~p.has_default
      default == IF ~required THEN p.default ELSE None
      val_type == ValType(p.annotation)
      action == IF val_type = "bool" THEN "store_true" ELSE "store"
      param_help == get_param_help(it, p.name)
      lname == Lower(p.name)
      fname == IF ~required THEN Replace(lname, "_", "-") ELSE lname
      kwargs0 == [action |-> action, help |-> param_help]
      kwargs1 == IF ~required
                 THEN [required |-> required, default |-> default, dest |-> p.name] @@ kwargs0
                 ELSE kwargs0
      kwargs == IF action = "store" THEN [type |-> val_type] @@ kwargs1 ELSE kwargs1
  IN <<IF required THEN <<fname>> ELSE <<<<"-", fname[1]>>, <<"-", "-">> \o fname>>, kwargs>>

\* CliCore._get_params: one entry per parameter, the receiver skipped
get_params(it) ==
  LET ps == SelectSeq(it.params, LAMBDA p : p.name # s_self)
  IN [i \in DOMAIN ps |-> get_param(it, ps[i])]

\* CliCore._build_args: the schema of every command and of its public methods
build_args(global) ==
  [global |-> global,
   commands |-> [n \in DOMAIN _modules |->
     [args |-> get_params(_modules[n]),
      subcommands |->
        LET methods == SelectSeq(get_class_methods(_modules[n]),
                                 LAMBDA f : ~StartsWith(f.name, <<"_">>))
        IN [m \in {methods[i].name : i \in DOMAIN methods} |->
              get_params(CHOOSE f \in {methods[i] : i \in DOMAIN methods} : f.name = m)]]]]


-----------------------------------------------------------------------------
(* Usage strings                                                           *)

s_command_ph == <<"<","c","o","m","m","a","n","d",">">>
s_subcommand_ph == <<"[","s","u","b","c","o","m","m","a","n","d","]">>
s_args_ph == <<"[","a","r","g","s","]">>

UsageKeys == <<"prog", "global_opts", "command", "command_opts", "subcommand", "subcommand_opts">>

\* CliCore._build_usage: `given` holds the segments the caller names; prog is
\* always the program name, the others default to their placeholders; every
\* non-empty segment that does not end with a space gets one; USAGE.format
\* joins the six segments in order
build_usage(prog, given) ==
  LET a1 == [prog |-> prog] @@ given
      a2 == IF "command" \in DOMAIN a1 THEN a1 ELSE [command |-> s_command_ph] @@ a1
      a3 == IF "subcommand" \in DOMAIN a2 THEN a2 ELSE [subcommand |-> s_subcommand_ph] @@ a2
      a4 == IF "global_opts" \in DOMAIN a3 THEN a3 ELSE [global_opts |-> s_args_ph] @@ a3
      a5 == IF "command_opts" \in DOMAIN a4 THEN a4 ELSE [command_opts |-> s_args_ph] @@ a4
      a6 == IF "subcommand_opts" \in DOMAIN a5 THEN a5 ELSE [subcommand_opts |-> s_args_ph] @@ a5
      a7 == [key \in DOMAIN a6 |->
               IF a6[key] # <<>> /\ ~EndsWith(a6[key], <<" ">>)
               THEN a6[key] \o <<" ">> ELSE a6[key]]
  IN Concat([i \in DOMAIN UsageKeys |-> a7[UsageKeys[i]]])

-----------------------------------------------------------------------------
(* The argparse grammar CliCore assembles.  An action is                   *)
(* [option_strings, dest, action, nargs, type, default, required, choices]; *)
(* a parser is [usage, actions].                                           *)

NoChoices == <<>>

\* argparse's add_argument(*flags, **kwargs): a single flag without a leading
\* "-" makes a positional whose dest is that flag and which is required; the
\* rest are optionals, dest and default taken from kwargs; store_true takes no
\* argument and defaults to False, store takes one
AddArgument(entry) ==
  LET flags == entry[1]
      kwargs == entry[2]
      positional == Len(flags) = 1 /\ flags[1][1] # "-"
      store_true == kwargs.action = "store_true"
  IN [option_strings |-> IF positional THEN <<>> ELSE flags,
      dest |-> IF positional THEN flags[1] ELSE kwargs.dest,
      action |-> kwargs.action,
      nargs |-> IF store_true THEN "0" ELSE "None",
      type |-> IF "type" \in DOMAIN kwargs THEN kwargs.type ELSE "none",
      default |-> IF "default" \in DOMAIN kwargs THEN kwargs.default
                  ELSE IF store_true THEN PyBool(FALSE) ELSE None,
      required |-> IF positional THEN TRUE
                   ELSE IF "required" \in DOMAIN kwargs THEN kwargs.required ELSE FALSE,
      choices |-> NoChoices]

\* CliCore._add_arguments
add_arguments(entries) == [i \in DOMAIN entries |-> AddArgument(entries[i])]

\* the -h/--help action every ArgumentParser starts with
HelpAction ==
  [option_strings |-> <<<<"-","h">>, <<"-","-","h","e","l","p">>>>, dest |-> s_help,
   action |-> "help", nargs |-> "0", type |-> "none", default |-> None,
   required |-> FALSE, choices |-> NoChoices]

\* parser.add_argument("-v", "--version", action="version", version=version)
VersionAction ==
  [option_strings |-> <<<<"-","v">>, <<"-","-","v","e","r","s","i","o","n">>>>, dest |-> s_version,
   action |-> "version", nargs |-> "0", type |-> "none", default |-> None,
   required |-> FALSE, choices |-> NoChoices]

\* add_subparsers without required=True
SubparsersActionOptional(dest, choices) ==
  [option_strings |-> <<>>, dest |-> dest, action |-> "parsers", nargs |-> "A...",
   type |-> "none", default |-> None, required |-> FALSE, choices |-> choices]

\* add_subparsers(required=True, dest=dest): a positional taking the rest of
\* the vector, whose first token selects one of the sub-parsers
SubparsersAction(dest, choices) ==
  [option_strings |-> <<>>, dest |-> dest, action |-> "parsers", nargs |-> "A...",
   type |-> "none", default |-> None, required |-> TRUE, choices |-> choices]

\* CliCore._add_subparser: a sub-parser with its usage line and its arguments
add_subparser(usage, entries) ==
  [usage |-> usage, actions |-> <<HelpAction>> \o add_arguments(entries)]

\* the usage line _build_parser gives a subcommand's parser
SubcommandUsage(prog, mod, subcommand_name) ==
  build_usage(prog, [subcommand |-> subcommand_name])

\* the parser _build_parser makes for one command: its constructor's
\* arguments and, if it has subcommands, a required choice among them
ModParser(prog, schema, mod) ==
  LET usage == build_usage(prog, [command |-> mod])
      mod_parser == add_subparser(usage, schema.commands[mod].args)
      subcommands == schema.commands[mod].subcommands
  IN IF DOMAIN subcommands # {}
     THEN [mod_parser EXCEPT !.actions = @ \o
             <<SubparsersAction(s_subcommand,
                 [sn \in DOMAIN subcommands |->
                    add_subparser(SubcommandUsage(prog, mod, sn), subcommands[sn])])>>]
     ELSE mod_parser

\* CliCore._build_parser
build_parser(prog, schema, version) ==
  [usage |-> build_usage(prog, <<>>),
   actions |-> <<HelpAction>>
               \o (IF version # None THEN <<VersionAction>> ELSE <<>>)
               \o add_arguments(schema.global)
               \o <<SubparsersAction(s_command,
                      [mod \in DOMAIN _modules |-> ModParser(prog, schema, mod)])>>]


-----------------------------------------------------------------------------
(* argparse's parse_args over that grammar.  The vectors parsed here hold  *)
(* no "--", no "=", no abbreviated long option, no negative number and no  *)
(* token with a space, so an option token is one that names an option of   *)
(* the parser or any other token of two or more characters starting "-".   *)

Invalid == [invalid |-> TRUE]

Range(f) == {f[i] : i \in DOMAIN f}

Max(S) == CHOOSE x \in S : \A y \in S : y <= x
Min(S) == CHOOSE x \in S : \A y \in S : x <= y

IsDigits(s) == s # <<>> /\ \A i \in DOMAIN s : s[i] \in Range(Digits)

DigitValue(c) == (CHOOSE i \in DOMAIN Digits : Digits[i] = c) - 1

\* int(text) for a text of decimal digits
RECURSIVE ToInt(_)
ToInt(s) == IF s = <<>> THEN 0 ELSE 10 * ToInt(SubSeq(s, 1, Len(s) - 1)) + DigitValue(s[Len(s)])

\* ArgumentParser._get_value: the token coerced to the action's type
GetValue(a, tok) ==
  IF a.type = "int"
  THEN IF IsDigits(tok) THEN PyInt(ToInt(tok)) ELSE Invalid
  ELSE PyStr(tok)

HasOption(p, tok) ==
  \E i \in DOMAIN p.actions : tok \in Range(p.actions[i].option_strings)

OptionAction(p, tok) ==
  p.actions[CHOOSE i \in DOMAIN p.actions : tok \in Range(p.actions[i].option_strings)]

\* ArgumentParser._parse_optional: is the token an option ('O') or an argument ('A')
IsOptionString(p, tok) ==
  /\ tok # <<>>
  /\ tok[1] = "-"
  /\ \/ HasOption(p, tok)
     \/ Len(tok) > 1 /\ " " \notin Range(tok)

ArgPattern(p, strs) == [i \in DOMAIN strs |-> IF IsOptionString(p, strs[i]) THEN "O" ELSE "A"]

\* ArgumentParser._match_arguments_partial: the argument counts of the longest
\* run of leading positionals that the pattern `pat` can feed (the sub-parsers
\* positional is always the last one CliCore adds)
RECURSIVE MatchPartial(_, _)
MatchPartial(positionals, pat) ==
  IF positionals = <<>> THEN <<>>
  ELSE LET a == Head(positionals)
       IN CASE a.nargs = "0" -> <<0>> \o MatchPartial(Tail(positionals), pat)
            [] a.nargs = "None" ->
                 IF pat # <<>> /\ pat[1] = "A"
                 THEN <<1>> \o MatchPartial(Tail(positionals), Tail(pat))
                 ELSE <<>>
            [] a.nargs = "A..." ->
                 IF pat # <<>> /\ pat[1] = "A"
                 THEN <<Len(pat)>> \o MatchPartial(Tail(positionals), <<>>)
                 ELSE <<>>

\* the namespace parse_known_args starts from: every action's default, the
\* help and version actions' suppressed
Defaults(p) ==
  LET acts == {a \in Range(p.actions) : a.action \notin {"help", "version"}}
  IN [d \in {a.dest : a \in acts} |-> (CHOOSE a \in acts : a.dest = d).default]

RECURSIVE ParseKnownArgs(_, _)

\* _SubParsersAction.__call__ once the chosen sub-parser has parsed the rest:
\* its namespace is merged, its unrecognized arguments are handed up
MergeSubParser(st, a, selected, sub) ==
  IF sub.status # "ok" THEN [st EXCEPT !.status = sub.status]
  ELSE [st EXCEPT !.ns = sub.ns @@ (a.dest :> PyStr(selected)) @@ @,
                  !.unrec = @ \o sub.extras]

\* the store action: the converted value, or an error if it does not convert
StoreValue(st, a, v) ==
  IF v = Invalid THEN [st EXCEPT !.status = "error"]
  ELSE [st EXCEPT !.ns = (a.dest :> v) @@ @]

\* the action run on its argument strings
RunAction(st, a, strs) ==
  CASE a.action = "store" -> StoreValue(st, a, GetValue(a, strs[1]))
    [] a.action = "store_true" -> [st EXCEPT !.ns = (a.dest :> PyBool(TRUE)) @@ @]
    [] a.action \in {"help", "version"} -> [st EXCEPT !.status = "exit0"]
    [] a.action = "parsers" ->
         IF strs[1] \notin DOMAIN a.choices THEN [st EXCEPT !.status = "error"]
         ELSE MergeSubParser(st, a, strs[1], ParseKnownArgs(a.choices[strs[1]], Tail(strs)))

\* take_action: record the action as seen and run it on its argument strings
TakeAction(st, a, strs) == RunAction([st EXCEPT !.seen = @ \cup {a.dest}], a, strs)

\* the loop of consume_positionals over the matched positionals
RECURSIVE TakePositionals(_, _, _)
TakePositionals(st, strs, counts) ==
  IF counts = <<>> \/ st.status # "run" THEN st
  ELSE TakePositionals(
         [TakeAction(st, Head(st.positionals),
                     SubSeq(strs, st.idx + 1, st.idx + Head(counts)))
            EXCEPT !.positionals = Tail(@), !.idx = @ + Head(counts)],
         strs, Tail(counts))

\* consume_positionals(start_index), start_index being st.idx
ConsumePositionals(st, strs, pat) ==
  TakePositionals(st, strs, MatchPartial(st.positionals, SubSeq(pat, st.idx + 1, Len(pat))))

\* a known option takes the argument strings its nargs asks for
ConsumeKnownOptional(st, a, strs, pat) ==
  IF a.nargs = "0"
  THEN [TakeAction(st, a, <<>>) EXCEPT !.idx = @ + 1]
  ELSE IF st.idx + 2 <= Len(strs) /\ pat[st.idx + 2] = "A"
       THEN [TakeAction(st, a, <<strs[st.idx + 2]>>) EXCEPT !.idx = @ + 2]
       ELSE [st EXCEPT !.status = "error"]

\* consume_optional(start_index): an unknown option goes to the extras
ConsumeOptional(st, p, strs, pat) ==
  IF ~HasOption(p, strs[st.idx + 1])
  THEN [st EXCEPT !.extras = Append(@, strs[st.idx + 1]), !.idx = @ + 1]
  ELSE ConsumeKnownOptional(st, OptionAction(p, strs[st.idx + 1]), strs, pat)

\* option_string_indices (0-based) of the pattern
OptionStringIndices(pat) == {i \in 0..(Len(pat) - 1) : pat[i + 1] = "O"}

MaxOptionStringIndex(pat) ==
  IF OptionStringIndices(pat) = {} THEN -1 ELSE Max(OptionStringIndices(pat))

\* next_option_string_index for start_index
NextOptionStringIndex(pat, start_index) ==
  Min({i \in OptionStringIndices(pat) : i >= start_index})

\* the strings before the next option that no positional took go to the extras
SkipToOption(st, strs, pat) ==
  IF st.idx \in OptionStringIndices(pat) THEN st
  ELSE [st EXCEPT !.extras = @ \o SubSeq(strs, st.idx + 1, NextOptionStringIndex(pat, st.idx)),
                  !.idx = NextOptionStringIndex(pat, st.idx)]

RECURSIVE ConsumeLoop(_, _, _, _)

\* the rest of one turn of the loop, st1 being the state after the
\* positionals were tried from start_index
ConsumeTurn(start_index, st1, p, strs, pat) ==
  IF st1.status # "run" THEN st1
  ELSE IF st1.idx > start_index THEN ConsumeLoop(st1, p, strs, pat)
  ELSE ConsumeLoop(ConsumeOptional(SkipToOption(st1, strs, pat), p, strs, pat), p, strs, pat)

\* the while loop of _parse_known_args: positionals and optionals alternately
\* until the last option string is passed
ConsumeLoop(st, p, strs, pat) ==
  IF st.status # "run" \/ st.idx > MaxOptionStringIndex(pat) THEN st
  ELSE ConsumeTurn(st.idx,
                   IF st.idx # NextOptionStringIndex(pat, st.idx)
                   THEN ConsumePositionals(st, strs, pat) ELSE st,
                   p, strs, pat)

\* the state _parse_known_args starts from
StartState(p) ==
  [status |-> "run", ns |-> Defaults(p),
   positionals |-> SelectSeq(p.actions, LAMBDA a : a.option_strings = <<>>),
   extras |-> <<>>, unrec |-> <<>>, seen |-> {}, idx |-> 0]

\* after the loop: the positionals that are left consume what they can
ConsumeRest(st, strs, pat) ==
  IF st.status = "run" THEN ConsumePositionals(st, strs, pat) ELSE st

\* the end of _parse_known_args: a required action that was not seen is an
\* error; the strings left over are the extras
Finish(st, p, strs) ==
  IF st.status # "run" THEN [status |-> st.status, ns |-> <<>>, extras |-> <<>>]
  ELSE IF \E a \in Range(p.actions) : a.required /\ a.dest \notin st.seen
       THEN [status |-> "error", ns |-> <<>>, extras |-> <<>>]
       ELSE [status |-> "ok", ns |-> st.ns,
             extras |-> st.extras \o SubSeq(strs, st.idx + 1, Len(strs)) \o st.unrec]

ParseWithPattern(p, strs, pat) ==
  Finish(ConsumeRest(ConsumeLoop(StartState(p), p, strs, pat), strs, pat), p, strs)

\* ArgumentParser.parse_known_args: [status, ns, extras]; status is "ok",
\* "error" (exit status 2) or "exit0" (help or version printed)
ParseKnownArgs(p, strs) == ParseWithPattern(p, strs, ArgPattern(p, strs))

\* ArgumentParser.parse_args: unrecognized arguments are an error
RejectExtras(r) ==
  IF r.status = "ok" /\ r.extras # <<>>
  THEN [status |-> "error", ns |-> <<>>, extras |-> <<>>]
  ELSE r

parse_args(p, strs) == RejectExtras(ParseKnownArgs(p, strs))


-----------------------------------------------------------------------------
(* Inputs: the construction arguments, the process arguments and the       *)
(* argument vectors handed to parse()                                      *)

MaxArgs == 4

t_x == <<"/","t","m","p","/","x">>
t_optimize == <<"-","-","o","p","t","i","m","i","z","e">>
t_verbose == <<"-","-","v","e","r","b","o","s","e">>
t_m == <<"-","m">>
t_h == <<"-","h">>
t_d == <<"-","d">>

Tokens ==
  {s_builder, s_reporter, s_loader, s_compile, t_x,
   t_optimize, t_verbose, t_m, t_h}

Argvs == SeqsUpTo(Tokens, MaxArgs)

\* a global option of the host program: a presence flag -d/--debug stored under dest
DebugFlag(dest) ==
  <<<<t_d, <<"-","-","d","e","b","u","g">>>>,
    [action |-> "store_true", help |-> <<>>, required |-> FALSE,
     default |-> PyBool(FALSE), dest |-> dest]>>

GlobalArgs == {<<>>, <<DebugFlag(s_debug)>>, <<DebugFlag(<<"_">> \o s_debug)>>}

ProgNames == {<<"p","r","o","g">>}

\* sys.argv[1:] of the host process: a valid invocation, so that reading it
\* and not reading it differ
SysArgvs == {<<s_reporter, t_verbose>>}

-----------------------------------------------------------------------------
(* The CliCore object and its operations                                   *)

EmptyList == [type |-> "list", dict |-> <<>>]
Namespace(d) == [type |-> "Namespace", dict |-> d]

NoCall == [op |-> "none", given |-> FALSE, args |-> <<>>, status |-> "none"]

DocItem0 == [kind |-> "function", doc |-> None, init_doc |-> None]

\* CliCore.__init__(prog_name, module_package, description, version, args)
Init ==
  /\ name \in ProgNames
  /\ \E global \in GlobalArgs :
       /\ args = build_args(global)
       /\ parser = build_parser(name, build_args(global), None)
  /\ parsed_args = EmptyList
  /\ sys_argv \in SysArgvs
  /\ last = NoCall
  /\ calls = <<>>
  /\ item = DocItem0 /\ param = <<>> /\ help_str = <<>>

\* parse() without the line `if not args: args = []`: argparse falls back to sys.argv[1:]
EffectiveArgsSysArgv(given, a) == IF ~given THEN sys_argv ELSE a

\* the vector parse() hands to parse_args: `if not args: args = []`
EffectiveArgs(given, a) == IF ~given \/ a = <<>> THEN <<>> ELSE a

\* a parse() that resets parsed_args before parse_args is called
ParseCallReset(given, a) ==
  LET r == parse_args(parser, EffectiveArgs(given, a))
  IN /\ parsed_args' = IF r.status = "ok" THEN [type |-> "Namespace", dict |-> r.ns]
                        ELSE [type |-> "list", dict |-> <<>>]
     /\ last' = [op |-> "parse", given |-> given, args |-> a,
                 status |-> CASE r.status = "ok" -> "returned"
                              [] r.status = "error" -> "exit2"
                              [] r.status = "exit0" -> "exit0"]
     /\ calls' = <<>>
     /\ UNCHANGED <<name, args, parser, sys_argv, item, param, help_str>>

\* CliCore.parse(args): parsed_args is assigned only if parse_args returns;
\* a usage error or a help request leaves through SystemExit
ParseCall(given, a) ==
  LET r == parse_args(parser, EffectiveArgs(given, a))
  IN /\ parsed_args' = IF r.status = "ok" THEN Namespace(r.ns) ELSE parsed_args
     /\ last' = [op |-> "parse", given |-> given, args |-> a,
                 status |-> CASE r.status = "ok" -> "returned"
                              [] r.status = "error" -> "exit2"
                              [] r.status = "exit0" -> "exit0"]
     /\ calls' = <<>>
     /\ UNCHANGED <<name, args, parser, sys_argv, item, param, help_str>>

\* Python's binding of keyword arguments to a signature: no unknown keyword,
\* no required parameter left out
Binds(params, kwargs) ==
  LET ps == {params[i] : i \in DOMAIN params} \ {q \in Range(params) : q.name = s_self}
  IN /\ DOMAIN kwargs \subseteq {q.name : q \in ps}
     /\ {q.name : q \in {q \in ps : ~q.has_default}} \subseteq DOMAIN kwargs

Call(cls, method, params, kwargs) ==
  [target |-> cls.name, method |-> method, kwargs |-> kwargs, bound |-> Binds(params, kwargs)]

\* the keyword arguments run() builds: every key without a leading "_"
PublicArgs(d) == [k \in {k \in DOMAIN d : ~StartsWith(k, <<"_">>)} |-> d[k]]

Falsy(v) == v = None \/ v = PyStr(<<>>)

\* the calls run() makes for the parsed namespace d: the type itself when no
\* subcommand was recorded, else the type with no argument and then the
\* method; a call that does not bind raises TypeError and ends run()
RunCalls(d) ==
  LET command == _modules[d[s_command].str]
      subcommand == IF s_subcommand \in DOMAIN d THEN d[s_subcommand] ELSE PyStr(<<>>)
      kwargs == PublicArgs(d)
  IN IF Falsy(subcommand)
     THEN <<Call(command, s_init, command.params, kwargs)>>
     ELSE LET ctor == Call(command, s_init, command.params, <<>>)
              f == CHOOSE f \in Range(command.functions) : f.name = subcommand.str
          IN IF ~ctor.bound THEN <<ctor>>
             ELSE <<ctor, Call(command, subcommand.str, f.params, kwargs)>>

\* CliCore.run(): parsed_args.__dict__ of the initial list raises
\* AttributeError before any plugin is touched
RunCall ==
  /\ IF parsed_args.type = "list"
     THEN /\ calls' = <<>>
          /\ last' = [last EXCEPT !.op = "run", !.status = "AttributeError"]
     ELSE LET cs == RunCalls(parsed_args.dict)
          IN /\ calls' = cs
             /\ last' = [last EXCEPT !.op = "run",
                           !.status = IF cs[Len(cs)].bound THEN "returned" ELSE "TypeError"]
  /\ UNCHANGED <<name, args, parser, parsed_args, sys_argv, item, param, help_str>>

\* One process: parse the command line once, then dispatch
Parse == last.op = "none" /\ \E a \in Argvs : ParseCall(TRUE, a)

ParseDefault == last.op = "none" /\ ParseCall(FALSE, <<>>)

Run ==
  /\ last.op = "none" \/ (last.op = "parse" /\ last.status = "returned")
  /\ RunCall

Next == Parse \/ ParseDefault \/ Run

Spec == Init /\ [][Next]_vars


-----------------------------------------------------------------------------
(* Properties of one parse-then-dispatch run                               *)

ParamNames(params) == {q.name : q \in {q \in Range(params) : q.name # s_self}}

\* the parameters of method m of a type
MethodParams(cls, m) == (CHOOSE f \in Range(cls.functions) : f.name = m).params

HasSubcommands(cmd) == DOMAIN args.commands[cmd].subcommands # {}

Returned == last.op = "parse" /\ last.status = "returned"

Dispatched == last.op = "run" /\ parsed_args.type = "Namespace"

\* the long flag of a parameter: "--" and its name with "_" replaced by "-"
LongFlag(n) == <<"-", "-">> \o Replace(n, "_", "-")

\* C1: for a command with subcommands, run() instantiates the type with the
\* parsed values of its constructor parameters and then invokes the selected
\* method with exactly the method's own parameters, and nothing else.
C1_SubcommandDispatch ==
  (Dispatched /\ HasSubcommands(parsed_args.dict[s_command].str)) =>
    LET d == parsed_args.dict
        cls == _modules[d[s_command].str]
        sub == d[s_subcommand].str
        ctor == ParamNames(cls.params)
        meth == ParamNames(MethodParams(cls, sub))
    IN /\ Len(calls) = 2
       /\ calls[1].target = cls.name /\ calls[1].method = s_init
       /\ DOMAIN calls[1].kwargs = ctor
       /\ \A k \in ctor : k \in DOMAIN d /\ calls[1].kwargs[k] = d[k]
       /\ calls[2].target = cls.name /\ calls[2].method = sub
       /\ DOMAIN calls[2].kwargs = meth
       /\ \A k \in meth : k \in DOMAIN d /\ calls[2].kwargs[k] = d[k]

\* C2: for a command without subcommands, run() instantiates the type once
\* with keyword arguments whose keys are exactly the constructor's parameter
\* names and whose values are the parsed values (Reporter: verbose is True
\* iff --verbose was given).
C2_CommandDispatch ==
  (Dispatched /\ ~HasSubcommands(parsed_args.dict[s_command].str)) =>
    LET d == parsed_args.dict
        cls == _modules[d[s_command].str]
        ctor == ParamNames(cls.params)
    IN /\ Len(calls) = 1
       /\ calls[1].target = cls.name /\ calls[1].method = s_init
       /\ DOMAIN calls[1].kwargs = ctor
       /\ \A k \in ctor : k \in DOMAIN d /\ calls[1].kwargs[k] = d[k]
       /\ (d[s_command].str = s_reporter /\ last.given) =>
            calls[1].kwargs[s_verbose] = PyBool(t_verbose \in Range(last.args))

\* the parameters of the operations a returned namespace selects: the type's
\* constructor and, if a subcommand was chosen, that method
SelectedParams(d) ==
  LET cls == _modules[d[s_command].str]
  IN {q \in Range(cls.params) : q.name # s_self}
     \cup (IF s_subcommand \in DOMAIN d
           THEN {q \in Range(MethodParams(cls, d[s_subcommand].str)) : q.name # s_self}
           ELSE {})

ExampleC3 == <<s_builder, t_x, s_compile, t_optimize>>

\* C3: every boolean parameter, with or without a default, is a presence flag
\* --<name>: its parsed value is true iff that token occurs in the vector;
\* `builder /tmp/x compile --optimize` is accepted with optimize true.
C3_BooleanPresenceFlag ==
  (last.op = "parse" /\ last.given) =>
    /\ last.args = ExampleC3 =>
         /\ last.status = "returned"
         /\ parsed_args.dict[s_optimize] = PyBool(TRUE)
    /\ last.status = "returned" =>
         \A q \in SelectedParams(parsed_args.dict) :
           q.annotation = "bool" =>
             /\ q.name \in DOMAIN parsed_args.dict
             /\ parsed_args.dict[q.name] = PyBool(LongFlag(q.name) \in Range(last.args))

\* the values a token of the vector can be coerced to
Supplied(argv) ==
  {PyStr(t) : t \in Range(argv)}
  \cup {PyInt(ToInt(t)) : t \in {t \in Range(argv) : IsDigits(t)}}

\* C5: parse() never returns an invocation in which a required parameter is
\* bound to a value the vector did not supply (a vector that leaves a required
\* parameter out ends in a usage error).
C5_RequiredNeverDefaulted ==
  (Returned /\ last.given) =>
    \A q \in SelectedParams(parsed_args.dict) :
      ~q.has_default =>
        LET key == Lower(q.name)
        IN /\ key \in DOMAIN parsed_args.dict
           /\ \/ parsed_args.dict[key] \in Supplied(last.args)
              \/ /\ parsed_args.dict[key] = PyBool(TRUE)
                 /\ {key, LongFlag(q.name)} \cap Range(last.args) # {}

\* the schema entry <<flags, kwargs>> of every parameter of every operation,
\* paired with the parameter it was built from
SchemaEntries ==
  UNION {
    {<<_modules[c].params[i], args.commands[c].args[i]>> : i \in DOMAIN args.commands[c].args}
    \cup UNION {
      LET ps == SelectSeq(MethodParams(_modules[c], m), LAMBDA q : q.name # s_self)
      IN {<<ps[i], args.commands[c].subcommands[m][i]>> : i \in DOMAIN ps}
      : m \in DOMAIN args.commands[c].subcommands}
    : c \in DOMAIN args.commands}

\* C7: a required parameter yields one positional token and no flag, an
\* optional one exactly -<first character> and --<name with hyphens>; in both
\* cases the parsed value is stored under the declared name, unchanged.
C7_FlagFormAndKey ==
  /\ \A e \in SchemaEntries :
       LET q == e[1]
           flags == e[2][1]
           stored == AddArgument(e[2]).dest
       IN /\ ~q.has_default => Len(flags) = 1 /\ flags[1][1] # "-"
          /\ q.has_default => flags = <<<<"-", q.name[1]>>, LongFlag(q.name)>>
          /\ stored = q.name
  /\ Returned =>
       \A q \in SelectedParams(parsed_args.dict) : q.name \in DOMAIN parsed_args.dict

\* a usage line written out: the six segments in order, each followed by one space
UsageLine(prog, global_opts, command, command_opts, subcommand, subcommand_opts) ==
  prog \o <<" ">> \o global_opts \o <<" ">> \o command \o <<" ">> \o command_opts
  \o <<" ">> \o subcommand \o <<" ">> \o subcommand_opts \o <<" ">>

SubparsersOf(p) == (CHOOSE a \in Range(p.actions) : a.action = "parsers").choices

\* C8: the top-level usage holds the placeholders, a command's usage holds the
\* command's name, and a subcommand's usage holds both the subcommand's name
\* and the name of the command that owns it.
C8_UsageLines ==
  /\ parser.usage =
       UsageLine(name, s_args_ph, s_command_ph, s_args_ph, s_subcommand_ph, s_args_ph)
  /\ \A c \in DOMAIN _modules :
       LET mod_parser == SubparsersOf(parser)[c]
       IN /\ mod_parser.usage =
               UsageLine(name, s_args_ph, c, s_args_ph, s_subcommand_ph, s_args_ph)
          /\ HasSubcommands(c) =>
               \A m \in DOMAIN args.commands[c].subcommands :
                 SubparsersOf(mod_parser)[m].usage =
                   UsageLine(name, s_args_ph, c, s_args_ph, m, s_args_ph)


\* the tokens of a vector that do not start with "-"
Words(argv) == SelectSeq(argv, LAMBDA t : ~StartsWith(t, <<"-">>))

\* the vector names a discovered command (its first word) and, if that command
\* has subcommands, one of them (the word after the constructor's required ones)
SelectsOperation(argv) ==
  LET w == Words(argv)
  IN /\ w # <<>>
     /\ w[1] \in DOMAIN _modules
     /\ HasSubcommands(w[1]) =>
          LET k == Cardinality({q \in Range(_modules[w[1]].params) : ~q.has_default})
          IN /\ Len(w) >= k + 2
             /\ w[k + 2] \in DOMAIN args.commands[w[1]].subcommands

\* the namespace names a discovered command and, where the command has
\* subcommands, one of them
NamesOperation(d) ==
  /\ s_command \in DOMAIN d
  /\ d[s_command] # None
  /\ d[s_command].str \in DOMAIN _modules
  /\ HasSubcommands(d[s_command].str) =>
       /\ s_subcommand \in DOMAIN d
       /\ d[s_subcommand] # None
       /\ d[s_subcommand].str \in DOMAIN args.commands[d[s_command].str].subcommands

AsksHelp(argv) == \E t \in Range(argv) : t \in Range(HelpAction.option_strings)

C6_DefaultsToProcessArgs ==
  (last.op = "parse" /\ ~last.given) =>
    LET r == parse_args(parser, sys_argv)
    IN /\ (last.status = "returned") = (r.status = "ok")
       /\ r.status = "ok" => parsed_args = Namespace(r.ns)

\* C6 amended: parse() without a vector (or with an empty one) parses the
\* empty vector, whatever the process's arguments are: no command is selected,
\* so it ends in a usage error and stores nothing.
C6_DefaultsToEmptyVector ==
  (last.op = "parse" /\ (~last.given \/ last.args = <<>>)) =>
    /\ last.status = "exit2"
    /\ parsed_args = EmptyList

\* parse() was called without a vector in a process whose own arguments are a
\* valid invocation
C6_Witness ==
  /\ last.op = "parse" /\ ~last.given
  /\ sys_argv # <<>>
  /\ SelectsOperation(sys_argv)


-----------------------------------------------------------------------------
(* A host that keeps the CliCore object and catches SystemExit and plugin  *)
(* errors: any sequence of parse() and run() calls                         *)

MaxSessionArgs == 2

SessionTokens == {s_reporter, s_loader, t_verbose, t_h}

SessionArgvs == SeqsUpTo(SessionTokens, MaxSessionArgs)

SessionParse == \E a \in SessionArgvs : ParseCall(TRUE, a)

SessionParseDefault == ParseCall(FALSE, <<>>)

SessionRun == RunCall

SessionNext == SessionParse \/ SessionParseDefault \/ SessionRun

SpecSession == Init /\ [][SessionNext]_vars

\* C10: run() instantiates a plugin type only if a parse() has returned, and
\* what it dispatches is the stored invocation, which only a parse() that
\* returns replaces (by the invocation of the vector it was given); a parse()
\* that ends in a usage error leaves it unchanged; the schema and the parser
\* built at construction never change.
C10_StoredInvocation ==
  [][/\ calls' # <<>> =>
          /\ parsed_args.type = "Namespace"
          /\ parsed_args' = parsed_args
          /\ calls'[1].target = _modules[parsed_args.dict[s_command].str].name
          /\ \A k \in DOMAIN calls'[Len(calls')].kwargs :
               calls'[Len(calls')].kwargs[k] = parsed_args.dict[k]
     /\ parsed_args' # parsed_args =>
          /\ last'.op = "parse" /\ last'.status = "returned"
          /\ parsed_args'.type = "Namespace"
          /\ parsed_args'.dict[s_command] = PyStr(Words(last'.args)[1])
     /\ (last'.op = "parse" /\ last'.status # "returned") => parsed_args' = parsed_args
     /\ args' = args /\ parser' = parser /\ name' = name
    ]_vars

\* run() dispatched an earlier invocation after the most recent parse() had
\* ended in a usage error
C10_Witness ==
  /\ last.op = "run" /\ calls # <<>>
  /\ last.given /\ parse_args(parser, last.args).status = "error"
  /\ parsed_args.type = "Namespace"

-----------------------------------------------------------------------------
(* _get_param_help as a function of the callable's documentation           *)

MaxDocLines == 3

s_p == <<"p">>
s_pa == <<"p","a">>

\* documentation lines: the tag for p, the same indented and padded, the tag
\* of a longer name, of a name in another case, the tag after other text, the
\* tag alone, another tag, plain text
DocLines ==
  {<<":","p","a","r","a","m"," ","p",":"," ","a">>,
   <<" "," ",":","p","a","r","a","m"," ","p",":"," ","b"," ">>,
   <<":","p","a","r","a","m"," ","p","a",":"," ","c">>,
   <<":","p","a","r","a","m"," ","P",":"," ","d">>,
   <<"x"," ",":","p","a","r","a","m"," ","p",":"," ","e">>,
   <<":","p","a","r","a","m"," ","p",":">>,
   <<"t","e","x","t">>}

\* "\n".join(lines)
RECURSIVE JoinLines(_)
JoinLines(lines) ==
  IF lines = <<>> THEN <<>>
  ELSE IF Len(lines) = 1 THEN lines[1]
  ELSE lines[1] \o <<"\n">> \o JoinLines(Tail(lines))

Docs == {None} \cup {PyStr(JoinLines(ls)) : ls \in SeqsUpTo(DocLines, MaxDocLines) \ {<<>>}}

TypeDocs == {None, PyStr(<<":","p","a","r","a","m"," ","p",":"," ","t","y","p","e">>)}

\* a function with its own documentation, or a type with its own and its
\* constructor's
DocItems ==
  {[kind |-> "function", doc |-> d, init_doc |-> None] : d \in Docs}
  \cup {[kind |-> "class", doc |-> td, init_doc |-> d] : td \in TypeDocs, d \in Docs}

DocInit ==
  /\ name \in ProgNames
  /\ args = build_args(<<>>)
  /\ parser = build_parser(name, build_args(<<>>), None)
  /\ parsed_args = EmptyList
  /\ sys_argv = <<>>
  /\ last = NoCall
  /\ calls = <<>>
  /\ item \in DocItems
  /\ param \in {s_p, s_pa}
  /\ help_str = <<>>

\* CliCore._get_param_help(item, param)
GetParamHelp ==
  /\ last.op = "none"
  /\ help_str' = get_param_help(item, param)
  /\ last' = [last EXCEPT !.op = "_get_param_help", !.status = "returned"]
  /\ UNCHANGED <<name, args, parser, parsed_args, sys_argv, calls, item, param>>

DocNext == GetParamHelp

SpecDoc == DocInit /\ [][DocNext]_vars

\* the documentation text consulted for the item, or None
Consulted == IF item.kind = "class" THEN item.init_doc ELSE item.doc

\* the lines of a text as index pairs: maximal stretches without a newline
LineSpans(t) ==
  {<<i, j>> \in (1..(Len(t) + 1)) \X (0..Len(t)) :
     /\ i <= j + 1
     /\ i = 1 \/ t[i - 1] = "\n"
     /\ j = Len(t) \/ t[j + 1] = "\n"
     /\ \A k \in i..j : t[k] # "\n"}

\* a text without its leading and trailing blanks
Trimmed(t) ==
  LET ink == {k \in DOMAIN t : t[k] # " "}
  IN IF ink = {} THEN <<>> ELSE SubSeq(t, Min(ink), Max(ink))

\* the spans of the lines that, trimmed, start with the tag of the parameter
TagSpans(t, p) ==
  {sp \in LineSpans(t) : StartsWith(Trimmed(SubSeq(t, sp[1], sp[2])),
                                    <<":","p","a","r","a","m"," ">> \o p \o <<":">>)}

\* C9: the help text of p is the trimmed text after `:param p:` on the first
\* documentation line that starts with exactly that tag, and empty when there
\* is no documentation or no such line; for a type the constructor's
\* documentation is the one consulted.
C9_ParamHelp ==
  last.op = "_get_param_help" =>
    IF Consulted = None \/ (Consulted # None /\ TagSpans(Consulted.str, param) = {})
    THEN help_str = <<>>
    ELSE LET t == Consulted.str
             first == CHOOSE sp \in TagSpans(t, param) :
                        \A o \in TagSpans(t, param) : sp[1] <= o[1]
             line == Trimmed(SubSeq(t, first[1], first[2]))
         IN help_str = Trimmed(SubSeq(line, Len(param) + 9, Len(line)))

\* a type whose constructor documents p after a line tagging the longer name
\* pa, and twice: the help is the first p line's text, not the type's own
C9_Witness ==
  /\ last.op = "_get_param_help"
  /\ item.kind = "class" /\ item.doc # None /\ param = s_p
  /\ item.init_doc =
       PyStr(<<":","p","a","r","a","m"," ","p","a",":"," ","c","\n",
               " "," ",":","p","a","r","a","m"," ","p",":"," ","b"," ","\n",
               ":","p","a","r","a","m"," ","p",":"," ","a">>)
  /\ help_str = <<"b">>


====
